---- MODULE Spec2Model ----
(***************************************************************************)
(* Pest detector (src/app.py): the recommendation logic (detect_category,   *)
(* extract_actives, curated_products over CATALOG), the JSON extraction of  *)
(* analyze_plant, and the Streamlit script as a state machine in which      *)
(* every user action re-runs the script from the top.                       *)
(*                                                                          *)
(* Texts are strings; TLC treats a string as the sequence of its            *)
(* characters (Len, SubSeq and \o apply), so lower-casing and substring     *)
(* tests are computed character by character as Python computes them.       *)
(***************************************************************************)
EXTENDS Integers, Sequences, FiniteSets, TLC

VARIABLES
    \* ---- process state ----
    ACTIVE_KEYWORDS,   \* iteration order of the set built at app.py:198
    \* ---- direct calls of the text functions (specification SpecText) ----
    disease_name,      \* argument: disease / finding name text
    recommendation,    \* argument: recommendation / treatment text
    call,              \* which function has been applied ("none" before)
    category,          \* value returned by detect_category
    actives,           \* value returned by extract_actives
    chosen,            \* value returned by curated_products
    \* ---- the inference backend and analyze_plant ----
    resp_text,         \* resp.text of the last backend call (app.py:250)
    result,            \* value returned by analyze_plant
    raised,            \* whether analyze_plant was left by an exception
    \* ---- the Streamlit session (specification Spec) ----
    GEMINI_API_KEY,    \* the configured credential (app.py:23)
    plant_name,        \* value of the "Plant name" text input
    file,              \* the uploader's file content, NoFile when none
    pic,               \* the camera input's photo, NoFile when none
    trigger,           \* the widget whose change started the last script run
    tts_ok,            \* whether the speech backend answered in the last run
    page,              \* what the last script run rendered
    calls,             \* what the last script run called
    \* ---- direct calls of osu_extension_links (specification SpecLinks) ----
    links              \* value returned by osu_extension_links

textVars == <<disease_name, recommendation, call, category, actives, chosen>>
parseVars == <<resp_text, result, raised>>
widgetVars == <<plant_name, file, pic>>
appVars == <<GEMINI_API_KEY, plant_name, file, pic, trigger, tts_ok, page, calls>>
linkVars == <<links>>

(***************************************************************************)
(* Bounds of the model.                                                     *)
(***************************************************************************)
\* longest recommendation text, in phrases of Phrases
MaxPhrases == 2
\* how far the catalog order and its reverse are rotated to get the
\* iteration orders of the ACTIVE_KEYWORDS set that are explored
MaxShift == 1
\* most members of the JSON object in a backend response text
MaxMembers == 2

(***************************************************************************)
(* Python string primitives.                                                *)
(***************************************************************************)
UpperChars == "ABCDEFGHIJKLMNOPQRSTUVWXYZ"
LowerChars == "abcdefghijklmnopqrstuvwxyz"

\* str.lower() on the upper-case letters
LowerMap ==
    [c \in {SubSeq(UpperChars, i, i) : i \in 1..Len(UpperChars)} |->
        LET i == CHOOSE i \in 1..Len(UpperChars) : SubSeq(UpperChars, i, i) = c
        IN  SubSeq(LowerChars, i, i)]

\* str.lower() on one character
LowerChar(c) == IF c \in DOMAIN LowerMap THEN LowerMap[c] ELSE c

\* str.lower()
RECURSIVE LowerFrom(_, _)
LowerFrom(s, i) ==
    IF i > Len(s) THEN ""
    ELSE LowerChar(SubSeq(s, i, i)) \o LowerFrom(s, i + 1)

lower(s) == LowerFrom(s, 1)

\* Python's `w in t` on strings: w occurs in t as a contiguous substring
Contains(w, t) ==
    \E i \in 1..(Len(t) - Len(w) + 1) : SubSeq(t, i, i + Len(w) - 1) = w

\* Python's any(w in t for w in ws), ws a list
AnyIn(ws, t) == \E k \in 1..Len(ws) : Contains(ws[k], t)

\* Python's `item in lst` on a list
InList(item, lst) == \E k \in 1..Len(lst) : lst[k] = item

\* Python's lst[:n]
Prefix(lst, n) == SubSeq(lst, 1, IF Len(lst) < n THEN Len(lst) ELSE n)

(***************************************************************************)
(* The curated catalog, app.py:159-197.  Each entry keeps the two fields    *)
(* the program reads to decide anything: "active" (matched at line 224) and *)
(* "title" (the caller's deduplication key, line 412, with the typographic  *)
(* dash written "-").  "link" and "snippet" are only printed.               *)
(***************************************************************************)
CATALOG ==
    [ bacterial |-> <<
        [active |-> "copper",
         title  |-> "Copper Fungicide (Bonide / Southern Ag) - search"] >>,
      fungal |-> <<
        [active |-> "chlorothalonil",
         title  |-> "Daconil (chlorothalonil) - search"],
        [active |-> "mancozeb",
         title  |-> "Mancozeb (with zinc) - search"],
        [active |-> "sulfur",
         title  |-> "Sulfur (wettable / dust) - search"],
        [active |-> "potassium bicarbonate",
         title  |-> "Potassium bicarbonate (e.g., GreenCure) - search"] >>,
      insect |-> <<
        [active |-> "spinosad",
         title  |-> "Monterey Garden Insect Spray (Spinosad) - search"],
        [active |-> "bt",
         title  |-> "Bt (Bacillus thuringiensis kurstaki) - search"],
        [active |-> "insecticidal soap",
         title  |-> "Insecticidal soap (potassium salts) - search"],
        [active |-> "horticultural oil",
         title  |-> "Horticultural oil (All Seasons) - search"],
        [active |-> "pyrethrin",
         title  |-> "Pyrethrin concentrate - search"],
        [active |-> "azadirachtin",
         title  |-> "Azadirachtin / Neem (cold-pressed) - search"] >> ]

\* the keys of CATALOG in dict (insertion) order, as CATALOG.values() visits them
Categories == <<"bacterial", "fungal", "insect">>

\* the "active" fields of a catalog list, in list order
ActivesOf(lst) == [k \in 1..Len(lst) |-> lst[k].active]

\* every active of the catalog in catalog iteration order: the order in
\* which the comprehension of line 198 inserts them into the set
CatalogOrder ==
    ActivesOf(CATALOG.bacterial) \o ActivesOf(CATALOG.fungal) \o ActivesOf(CATALOG.insect)

\* the set of line 198
ActiveSet == {CatalogOrder[k] : k \in 1..Len(CatalogOrder)}

Reverse(s) == [k \in 1..Len(s) |-> s[Len(s) + 1 - k]]
Rotate(s, n) == [k \in 1..Len(s) |-> s[((k - 1 + n) % Len(s)) + 1]]

\* ACTIVE_KEYWORDS is a Python set of str: its iteration order follows the
\* strings' hashes, which are randomised per process, so the order is any
\* permutation of ActiveSet, fixed for the life of the process.  The model
\* explores the catalog order, its reverse, and their rotations by up to
\* MaxShift places.
SetOrders ==
    {Rotate(CatalogOrder, n) : n \in 0..MaxShift}
        \cup {Rotate(Reverse(CatalogOrder), n) : n \in 0..MaxShift}

(***************************************************************************)
(* extract_actives, app.py:200-206.                                         *)
(***************************************************************************)
\* the for loop of lines 203-205 from position k of the iteration order on
RECURSIVE ExtractLoop(_, _, _, _, _)
ExtractLoop(order, k, text_l, found, seen) ==
    IF k > Len(order) THEN found
    ELSE LET active == order[k]
         IN  IF Contains(active, text_l) /\ active \notin seen
             THEN ExtractLoop(order, k + 1, text_l, Append(found, active),
                              seen \cup {active})
             ELSE ExtractLoop(order, k + 1, text_l, found, seen)

extract_actives(text) ==
    ExtractLoop(ACTIVE_KEYWORDS, 1, lower(text), <<>>, {})

(***************************************************************************)
(* detect_category, app.py:208-213.                                         *)
(***************************************************************************)
BacterialWords == <<"bacteria", "bacterial", "canker", "ooze">>
FungalWords == <<"rust", "blight", "mildew", "anthracnose", "rot", "fung">>
InsectWords == <<"aphid", "whitefly", "thrip", "mite", "borer", "worm",
                 "caterpillar", "beetle", "leafminer", "insect">>

\* a plausible slip: the fungal test placed before the bacterial one
detect_category_FungalFirst(disease_text, treatment_text) ==
    LET dl == lower(disease_text) \o " " \o lower(treatment_text)
    IN  IF AnyIn(FungalWords, dl) THEN "fungal"
        ELSE IF AnyIn(BacterialWords, dl) THEN "bacterial"
        ELSE "insect"

detect_category(disease_text, treatment_text) ==
    LET dl == lower(disease_text) \o " " \o lower(treatment_text)
    IN  IF AnyIn(BacterialWords, dl) THEN "bacterial"
        ELSE IF AnyIn(FungalWords, dl) THEN "fungal"
        ELSE IF AnyIn(InsectWords, dl) THEN "insect"
        ELSE "insect"

(***************************************************************************)
(* curated_products, app.py:215-231.                                        *)
(***************************************************************************)
\* line 225: fewer matched entries than this are backfilled
MinProducts == 2
\* line 230: the cap on the returned list
MaxProducts == 4

\* lines 222-224: for each active, every entry of the list with that active
RECURSIVE MatchLoop(_, _, _, _)
MatchLoop(acts, k, catalog_list, acc) ==
    IF k > Len(acts) THEN acc
    ELSE MatchLoop(acts, k + 1, catalog_list,
                   acc \o SelectSeq(catalog_list, LAMBDA item : item.active = acts[k]))

\* lines 226-229: append entries not yet chosen until MinProducts are chosen
RECURSIVE BackfillLoop(_, _, _)
BackfillLoop(catalog_list, k, acc) ==
    IF k > Len(catalog_list) THEN acc
    ELSE IF ~InList(catalog_list[k], acc)
         THEN LET acc2 == Append(acc, catalog_list[k])
              IN  IF Len(acc2) >= MinProducts THEN acc2
                  ELSE BackfillLoop(catalog_list, k + 1, acc2)
         ELSE BackfillLoop(catalog_list, k + 1, acc)

\* a plausible slip: the matched entries returned without the backfill
curated_products_NoBackfill(rec, dis) ==
    LET catalog_list == CATALOG[detect_category(dis, rec)]
        acts == extract_actives(rec)
    IN  IF Len(acts) > 0
        THEN Prefix(MatchLoop(acts, 1, catalog_list, <<>>), MaxProducts)
        ELSE Prefix(catalog_list, MinProducts)

\* a plausible slip: `return chosen` without the [:4]
curated_products_NoCap(rec, dis) ==
    LET catalog_list == CATALOG[detect_category(dis, rec)]
        acts == extract_actives(rec)
    IN  IF Len(acts) > 0
        THEN LET matched == MatchLoop(acts, 1, catalog_list, <<>>)
             IN  IF Len(matched) < MinProducts
                 THEN BackfillLoop(catalog_list, 1, matched)
                 ELSE matched
        ELSE Prefix(catalog_list, MinProducts)

\* a plausible slip: the catalog's first entries put before the matched ones
curated_products_DefaultsFirst(rec, dis) ==
    LET catalog_list == CATALOG[detect_category(dis, rec)]
        acts == extract_actives(rec)
    IN  IF Len(acts) > 0
        THEN Prefix(Prefix(catalog_list, MinProducts)
                        \o MatchLoop(acts, 1, catalog_list, <<>>), MaxProducts)
        ELSE Prefix(catalog_list, MinProducts)

curated_products(rec, dis) ==
    LET cat == detect_category(dis, rec)
        acts == extract_actives(rec)
        catalog_list == CATALOG[cat]
    IN  IF Len(catalog_list) = 0 THEN <<>>
        ELSE IF Len(acts) > 0
        THEN LET matched == MatchLoop(acts, 1, catalog_list, <<>>)
                 filled == IF Len(matched) < MinProducts
                           THEN BackfillLoop(catalog_list, 1, matched)
                           ELSE matched
             IN  Prefix(filled, MaxProducts)
        ELSE Prefix(catalog_list, MinProducts)

(***************************************************************************)
(* Python values met in analyze_plant's result.  A value is a record        *)
(* [t, v]: t the Python type, v the content; a dict is a function from its  *)
(* keys to values, a list a sequence of values.                             *)
(***************************************************************************)
Str(s) == [t |-> "str", v |-> s]
Bool(b) == [t |-> "bool", v |-> b]
List(l) == [t |-> "list", v |-> l]
Dict(d) == [t |-> "dict", v |-> d]
EmptyDict == Dict(<<>>)
NoneValue == [t |-> "None", v |-> FALSE]

\* d[k] = val on a dict (a later assignment of a key replaces the earlier)
DictSet(d, k, val) == Dict((k :> val) @@ d.v)

\* k in d
HasKey(d, k) == k \in DOMAIN d.v

\* d.get(k, default)
Get(d, k, default) == IF HasKey(d, k) THEN d.v[k] ELSE default

\* bool(x) of a value, as `if x:` tests it
Truthy(x) ==
    CASE x.t = "bool" -> x.v
      [] x.t = "str"  -> Len(x.v) > 0
      [] x.t = "list" -> Len(x.v) > 0
      [] x.t = "dict" -> DOMAIN x.v # {}
      [] x.t = "None" -> FALSE

(***************************************************************************)
(* json.loads (called at app.py:255) on the JSON documents the model's      *)
(* backend responses are written in: objects, arrays, strings without       *)
(* escapes, true and false, with spaces allowed between tokens.  A result   *)
(* is [ok, val, next]: ok FALSE stands for json.loads raising               *)
(* JSONDecodeError, next is the position after the value read.              *)
(***************************************************************************)
CharAt(t, i) == IF i >= 1 /\ i <= Len(t) THEN SubSeq(t, i, i) ELSE ""

\* word w stands in t at position i
StartsAt(t, i, w) ==
    i >= 1 /\ i + Len(w) - 1 <= Len(t) /\ SubSeq(t, i, i + Len(w) - 1) = w

JsonFail == [ok |-> FALSE, val |-> EmptyDict, next |-> 0]
JsonOk(val, next) == [ok |-> TRUE, val |-> val, next |-> next]

\* the first position from i on that holds no space
RECURSIVE SkipWs(_, _)
SkipWs(t, i) == IF CharAt(t, i) = " " THEN SkipWs(t, i + 1) ELSE i

\* the position of the first '"' from i on, 0 when there is none
RECURSIVE QuoteFrom(_, _)
QuoteFrom(t, i) ==
    IF i > Len(t) THEN 0
    ELSE IF CharAt(t, i) = "\"" THEN i
    ELSE QuoteFrom(t, i + 1)

\* a string literal whose opening quote is at i
JsonString(t, i) ==
    LET j == QuoteFrom(t, i + 1)
    IN  IF CharAt(t, i) # "\"" \/ j = 0 THEN JsonFail
        ELSE JsonOk(Str(SubSeq(t, i + 1, j - 1)), j + 1)

RECURSIVE JsonValue(_, _), JsonPairs(_, _, _), JsonItems(_, _, _)

\* the "key": value pairs of an object from position i on, acc the dict so far
JsonPairs(t, i, acc) ==
    LET key == JsonString(t, i)
        colon == SkipWs(t, key.next)
    IN  IF ~key.ok \/ CharAt(t, colon) # ":" THEN JsonFail
        ELSE LET val == JsonValue(t, SkipWs(t, colon + 1))
                 after == SkipWs(t, val.next)
                 dict == DictSet(acc, key.val.v, val.val)
             IN  IF ~val.ok THEN JsonFail
                 ELSE IF CharAt(t, after) = "}" THEN JsonOk(dict, after + 1)
                 ELSE IF CharAt(t, after) = ","
                      THEN JsonPairs(t, SkipWs(t, after + 1), dict)
                 ELSE JsonFail

\* the elements of an array from position i on, acc the list so far
JsonItems(t, i, acc) ==
    LET val == JsonValue(t, i)
        after == SkipWs(t, val.next)
    IN  IF ~val.ok THEN JsonFail
        ELSE IF CharAt(t, after) = "]"
             THEN JsonOk(List(Append(acc, val.val)), after + 1)
        ELSE IF CharAt(t, after) = ","
             THEN JsonItems(t, SkipWs(t, after + 1), Append(acc, val.val))
        ELSE JsonFail

\* the value that starts at position i
JsonValue(t, i) ==
    LET c == CharAt(t, i)
    IN  IF c = "{"
        THEN LET j == SkipWs(t, i + 1)
             IN  IF CharAt(t, j) = "}" THEN JsonOk(EmptyDict, j + 1)
                 ELSE JsonPairs(t, j, EmptyDict)
        ELSE IF c = "["
        THEN LET j == SkipWs(t, i + 1)
             IN  IF CharAt(t, j) = "]" THEN JsonOk(List(<<>>), j + 1)
                 ELSE JsonItems(t, j, <<>>)
        ELSE IF c = "\"" THEN JsonString(t, i)
        ELSE IF StartsAt(t, i, "true") THEN JsonOk(Bool(TRUE), i + 4)
        ELSE IF StartsAt(t, i, "false") THEN JsonOk(Bool(FALSE), i + 5)
        ELSE JsonFail

\* json.loads(t): one value and nothing but spaces around it
json_loads(t) ==
    LET r == JsonValue(t, SkipWs(t, 1))
    IN  IF r.ok /\ SkipWs(t, r.next) = Len(t) + 1 THEN r ELSE JsonFail

(***************************************************************************)
(* analyze_plant, app.py:234-257, from the response text on (line 250):     *)
(* the call to the inference backend is the environment's choice of text.   *)
(***************************************************************************)
\* str.find(c): the 0-based index of the first c, -1 when there is none
Find(t, c) ==
    LET at == {i \in 1..Len(t) : SubSeq(t, i, i) = c}
    IN  IF at = {} THEN -1 ELSE (CHOOSE i \in at : \A j \in at : i <= j) - 1

\* str.rfind(c): the 0-based index of the last c, -1 when there is none
RFind(t, c) ==
    LET at == {i \in 1..Len(t) : SubSeq(t, i, i) = c}
    IN  IF at = {} THEN -1 ELSE (CHOOSE i \in at : \A j \in at : i >= j) - 1

\* t[s:e] for 0 <= s and 0 <= e: the characters at 0-based s .. e-1
Slice(t, s, e) ==
    LET last == IF e < Len(t) THEN e ELSE Len(t)
    IN  IF last <= s THEN "" ELSE SubSeq(t, s + 1, last)

\* the dict of line 253
NoJsonError(text) ==
    Dict(("error" :> Str("Failed to parse the model response")) @@ ("raw" :> Str(text)))

\* the dict of line 257; the decoder's own message after "Invalid JSON: "
\* is left out
InvalidJsonError(raw) ==
    Dict(("error" :> Str("Invalid JSON")) @@ ("raw" :> Str(raw)))

\* a plausible slip: rfind without the + 1, so the slice loses the last brace
analyze_plant_NoPlusOne(text) ==
    LET s == Find(text, "{")
        e == RFind(text, "}")
    IN  IF s < 0 \/ e <= 0 THEN [raised |-> FALSE, value |-> NoJsonError(text)]
        ELSE LET parsed == json_loads(Slice(text, s, e))
             IN  IF parsed.ok THEN [raised |-> FALSE, value |-> parsed.val]
                 ELSE [raised |-> FALSE, value |-> InvalidJsonError(Slice(text, s, e))]

\* [raised, value]: raised TRUE would be an exception leaving the function
analyze_plant(text) ==
    LET s == Find(text, "{")
        e == RFind(text, "}") + 1
    IN  IF s < 0 \/ e <= 0 THEN [raised |-> FALSE, value |-> NoJsonError(text)]
        ELSE LET parsed == json_loads(Slice(text, s, e))
             IN  IF parsed.ok THEN [raised |-> FALSE, value |-> parsed.val]
                 ELSE [raised |-> FALSE, value |-> InvalidJsonError(Slice(text, s, e))]

(***************************************************************************)
(* synthesize_summary, app.py:260-278.  tts tells whether gTTS answers;     *)
(* the audio it writes is modelled as "mp3:" followed by the spoken text.   *)
(***************************************************************************)
\* str(x) as an f-string prints a value
Format(x) ==
    CASE x.t = "str" -> x.v
      [] x.t = "bool" -> IF x.v THEN "True" ELSE "False"
      [] x.t = "None" -> "None"

\* lines 266-269 for one finding
SpokenFinding(r) ==
    Format(Get(r, "name", Str("Unknown"))) \o ". Symptoms: "
        \o Format(Get(r, "symptoms", Str(""))) \o ". Treatment: "
        \o Format(Get(r, "treatment", Str(""))) \o ". Prevention: "
        \o Format(Get(r, "prevention", Str(""))) \o "."

\* " ".join(parts) of lines 265-270
RECURSIVE JoinSpoken(_, _)
JoinSpoken(rs, k) ==
    IF k > Len(rs) THEN ""
    ELSE (IF k > 1 THEN " " ELSE "") \o SpokenFinding(rs[k]) \o JoinSpoken(rs, k + 1)

\* lines 261-272
SummaryText(analysis, plant) ==
    IF Truthy(Get(analysis, "is_healthy", NoneValue))
    THEN "Your " \o plant \o " plant appears healthy. Keep doing what you are doing."
    ELSE IF Truthy(Get(analysis, "results", NoneValue))
    THEN "Detected issues: " \o JoinSpoken(analysis.v["results"].v, 1)
    ELSE "Analysis inconclusive."

\* a plausible slip: no try/except around gTTS, so its failure leaves the
\* function as an exception
synthesize_summary_NoExcept(analysis, plant, tts) ==
    IF tts THEN [raised |-> FALSE, audio |-> "mp3:" \o SummaryText(analysis, plant)]
    ELSE [raised |-> TRUE, audio |-> ""]

\* [raised, audio]: raised TRUE would be an exception leaving the function
synthesize_summary(analysis, plant, tts) ==
    IF tts THEN [raised |-> FALSE, audio |-> "mp3:" \o SummaryText(analysis, plant)]
    ELSE [raised |-> FALSE, audio |-> ""]

(***************************************************************************)
(* The script, app.py:23-436, as one run from the top.  Streamlit runs it   *)
(* once when the page loads and once after every widget change or button    *)
(* click; a button call returns True only in the run its click started, and *)
(* only if that run reaches the call.                                       *)
(***************************************************************************)
NoFile == "None"

\* nothing rendered
BlankPage ==
    [ config_error |-> FALSE,    \* line 27
      inputs |-> FALSE,          \* lines 311-336
      run_btn_disabled |-> TRUE, \* line 335
      exception |-> FALSE,       \* an uncaught exception ended the run
      error |-> "",              \* line 346
      success |-> FALSE,         \* line 348
      summary |-> <<>>,          \* lines 356-361: plant, status, confidence
      audio |-> "",              \* lines 364-366
      reset_btn |-> FALSE,       \* line 370
      issues |-> <<>>,           \* lines 382-399: the findings' names
      info |-> FALSE,            \* line 432
      items |-> <<>>,            \* lines 415-428: the product cards' titles
      no_products |-> FALSE,     \* line 430
      tip |-> FALSE ]            \* line 436

\* what a run called: the inference backend, the speech backend,
\* curated_products, and the reset handler of lines 371-372
NoCalls == [backend |-> FALSE, speech |-> FALSE, products |-> FALSE, reset |-> FALSE]

\* lines 316-333: the bytes the run works on
ImageBytes(f, p) ==
    LET from_file == IF f # NoFile THEN f ELSE ""
    IN  IF p # NoFile THEN p ELSE from_file

\* a plausible slip: the button enabled by the plant name alone
RunBtnDisabled_NameOnly(name, image_bytes) == ~(Len(name) > 0)

\* line 335: disabled=not (plant_name and image_bytes)
RunBtnDisabled(name, image_bytes) == ~(Len(name) > 0 /\ Len(image_bytes) > 0)

\* lines 409-413: the products of every finding, deduplicated by title
RECURSIVE CollectItems(_, _, _)
CollectItems(rs, k, items) ==
    IF k > Len(rs) THEN items
    ELSE LET ps == curated_products(Format(Get(rs[k], "treatment", Str(""))),
                                    Format(Get(rs[k], "name", Str(""))))
             fresh == SelectSeq(ps, LAMBDA q : ~InList(q.title, items))
         IN  CollectItems(rs, k + 1, items \o [i \in 1..Len(fresh) |-> fresh[i].title])

\* a plausible slip: line 346 without st.stop(), so the run goes on after
\* showing the error
StopsOnError_NoStop(res) == FALSE

\* lines 345-346: the run ends at st.stop() when the result holds "error"
StopsOnError(res) == HasKey(res, "error")

\* lines 377-434: the right column
RightColumn(res, shown) ==
    LET findings == Get(res, "results", NoneValue)
    IN  IF Truthy(findings)
        THEN LET items == CollectItems(findings.v, 1, <<>>)
             IN  [shown EXCEPT
                     !.issues = [k \in 1..Len(findings.v) |->
                                   Format(Get(findings.v[k], "name", Str("Unknown")))],
                     !.items = items,
                     !.no_products = (items = <<>>)]
        ELSE [shown EXCEPT !.info = TRUE]

\* lines 348-434: the results panel, after the error check
ResultsPanel(trig, name, res, tts, shown, called) ==
    LET is_healthy == Truthy(Get(res, "is_healthy", Bool(FALSE)))
        left == [shown EXCEPT
                    !.success = TRUE,
                    !.summary = << name,
                                   IF is_healthy THEN "No issues detected"
                                                 ELSE "Issues Detected",
                                   Format(Get(res, "confidence", Str("-"))) >>]
        spoken == synthesize_summary(res, name, tts)
        after_speech == [called EXCEPT !.speech = TRUE]
        with_reset == [left EXCEPT !.audio = spoken.audio, !.reset_btn = TRUE]
    IN  IF spoken.raised
        THEN [page |-> [left EXCEPT !.exception = TRUE], calls |-> after_speech]
        ELSE IF trig = "reset_btn"
        \* lines 371-372: the handler; experimental_rerun ends the run
        THEN [page |-> with_reset, calls |-> [after_speech EXCEPT !.reset = TRUE]]
        ELSE [page |-> RightColumn(res, with_reset),
              calls |-> [after_speech EXCEPT
                            !.products = Truthy(Get(res, "results", NoneValue))]]

\* line 339: whether a run gets into the results block (past the credential
\* check of line 26), and so calls analyze_plant at line 343
Analyzes(key, trig, name, f, p) ==
    /\ Len(key) > 0
    /\ trig = "run_btn"
    /\ Len(name) > 0
    /\ Len(ImageBytes(f, p)) > 0

\* lines 339-436, once the inputs are rendered; res and exc are what
\* analyze_plant returned and whether it raised, in a run that called it
ResultsBlock(key, trig, name, f, p, res, exc, tts, shown) ==
    IF ~Analyzes(key, trig, name, f, p)
    THEN [page |-> [shown EXCEPT !.tip = TRUE], calls |-> NoCalls]
    ELSE
    LET called == [NoCalls EXCEPT !.backend = TRUE]
        with_error == IF HasKey(res, "error")
                      THEN [shown EXCEPT !.error = Format(res.v["error"])]
                      ELSE shown
    IN  IF exc
        THEN [page |-> [shown EXCEPT !.exception = TRUE], calls |-> called]
        ELSE IF StopsOnError(res)
        THEN [page |-> with_error, calls |-> called]
        ELSE ResultsPanel(trig, name, res, tts, with_error, called)

\* one run of the script, [page, calls], with the widgets at name, f, p
Script(key, trig, name, f, p, res, exc, tts) ==
    IF Len(key) = 0
    \* lines 26-28: no credential, st.stop()
    THEN [page |-> [BlankPage EXCEPT !.config_error = TRUE], calls |-> NoCalls]
    ELSE ResultsBlock(key, trig, name, f, p, res, exc, tts,
                      [BlankPage EXCEPT
                          !.inputs = TRUE,
                          !.run_btn_disabled = RunBtnDisabled(name, ImageBytes(f, p))])

(***************************************************************************)
(* osu_extension_links, app.py:147-156.                                     *)
(***************************************************************************)
\* the characters str.strip() removes that a one-line text can hold
Whitespace == {" ", "\t"}

\* str.strip()
strip(s) ==
    LET kept == {i \in 1..Len(s) : SubSeq(s, i, i) \notin Whitespace}
    IN  IF kept = {} THEN ""
        ELSE SubSeq(s, CHOOSE i \in kept : \A j \in kept : i <= j,
                       CHOOSE i \in kept : \A j \in kept : i >= j)

\* line 148: the query text put into both links
LinkQuery(plant, disease) ==
    IF Len(plant) > 0 /\ Len(disease) > 0
    THEN strip(plant) \o "+" \o strip(disease)
    ELSE IF Len(plant) > 0 THEN plant
    ELSE IF Len(disease) > 0 THEN disease
    ELSE "plant disease"

\* lines 149-156: the two links, the query text pasted in as it is
osu_extension_links(plant, disease) ==
    LET q == LinkQuery(plant, disease)
    IN  << [title |-> "OSU Extension fact sheets (search)",
            link |-> "https://www.google.com/search?q=site:ohioline.osu.edu+" \o q,
            snippet |-> "Ohio State University Extension fact sheets related to your query."],
           [title |-> "OSU CFAES plant problem resources (search)",
            link |-> "https://www.google.com/search?q=site:u.osu.edu+" \o q
                        \o "+plant+problem",
            snippet |-> "Additional OSU resources and diagnostics."] >>

(***************************************************************************)
(* Inputs of the direct calls.                                              *)
(***************************************************************************)
\* disease / finding names
Diseases ==
    { "", "Bacterial Spot", "Late blight", "Aphids",
      "Blight (bacterial canker)", "ro" }

\* phrases a treatment text is made of
Phrases ==
    { "Apply COPPER",
      "Mancozeb or sulfur",
      "Spinosad, Bt, pyrethrin",
      "azadirachtin; insecticidal soap",
      "horticultural oil",
      "a subtle change",
      "tate" }

\* the texts made of at most n different phrases, joined by ". ", each with
\* the set of phrases it uses
RECURSIVE Joined(_)
Joined(n) ==
    IF n = 0 THEN {[text |-> "", used |-> {}]}
    ELSE LET prev == Joined(n - 1)
         IN  prev \cup UNION {
                 {[text |-> IF r.text = "" THEN p ELSE r.text \o ". " \o p,
                   used |-> r.used \cup {p}] : p \in Phrases \ r.used}
                 : r \in {x \in prev : Cardinality(x.used) = n - 1}}

Recommendations == {r.text : r \in Joined(MaxPhrases)}

\* backend response texts: an optional lead-in, an optional "{", at most
\* MaxMembers different members joined by ",", a closing, an optional tail
Members ==
    { "\"is_healthy\":true",
      "\"results\": []",
      "\"results\":[{\"name\":\"Rust\"}]",
      "\"confidence\":\"95%\"" }

Leads == {"", "Here is the result: ", "} "}
Opens == {"{", ""}
Closings == {"}", "", ",}"}
Tails == {"", " Thanks!", " {"}

RECURSIVE Bodies(_)
Bodies(n) ==
    IF n = 0 THEN {[text |-> "", used |-> {}]}
    ELSE LET prev == Bodies(n - 1)
         IN  prev \cup UNION {
                 {[text |-> IF r.text = "" THEN m ELSE r.text \o "," \o m,
                   used |-> r.used \cup {m}] : m \in Members \ r.used}
                 : r \in {x \in prev : Cardinality(x.used) = n - 1}}

ResponseTexts ==
    {l \o o \o b.text \o c \o t :
        l \in Leads, o \in Opens, b \in Bodies(MaxMembers), c \in Closings, t \in Tails}

\* the backend's answers in the session: a healthy plant (the spec's example
\* text), one finding, two findings of one category, an empty object, prose
\* without JSON, broken JSON, and an object that itself holds "error"
AppResponses ==
    { "Here is the result: {\"is_healthy\": true, \"results\": [], \"confidence\": \"95%\"} Thanks!",
      "{\"is_healthy\":false,\"results\":[{\"name\":\"Bacterial spot\",\"treatment\":\"Apply copper spray\"}]}",
      "{\"results\":[{\"name\":\"Aphids\",\"treatment\":\"insecticidal soap\"},{\"name\":\"Whitefly\"}]}",
      "{}",
      "I cannot analyze this image.",
      "{\"is_healthy\":tru}",
      "{\"error\":\"quota exceeded\"}" }

\* plant names and finding names handed to osu_extension_links: empty,
\* plain, with inner and outer spaces, and with "&", "#", "+"
LinkPlants ==
    { "", "Tomato", "Sweet Corn", " Apple ", "Corn & Bean", "Rose #2", "C+C", " " }
LinkFindings ==
    { "", "Rust", "Leaf spot", "Blight & rot", "Virus #2", "A+B", " Aphids", "Scab\t" }

\* what the user can type, upload ("" is a file of no bytes) and photograph
PlantNames == {"", "Tomato", "Apple"}
Files == {"", "PNG-bytes"}
Photos == {"JPG-bytes"}

(***************************************************************************)
(* The three groups of variables at rest.                                   *)
(***************************************************************************)
TextIdle ==
    /\ disease_name = ""
    /\ recommendation = ""
    /\ category = ""
    /\ actives = <<>>
    /\ chosen = <<>>

ParseIdle ==
    /\ resp_text = ""
    /\ result = NoneValue
    /\ raised = FALSE

AppIdle ==
    /\ GEMINI_API_KEY = "key"
    /\ plant_name = ""
    /\ file = NoFile
    /\ pic = NoFile
    /\ trigger = "none"
    /\ tts_ok = TRUE
    /\ page = BlankPage
    /\ calls = NoCalls

LinksIdle == links = <<>>

vars == <<ACTIVE_KEYWORDS, textVars, parseVars, appVars, linkVars>>

(***************************************************************************)
(* SpecText: one direct call of one of the three text functions on          *)
(* arguments drawn at the start.                                            *)
(***************************************************************************)
InitText ==
    /\ ACTIVE_KEYWORDS \in SetOrders
    /\ disease_name \in Diseases
    /\ recommendation \in Recommendations
    /\ call = "none"
    /\ category = ""
    /\ actives = <<>>
    /\ chosen = <<>>
    /\ ParseIdle
    /\ AppIdle
    /\ LinksIdle

CallDetectCategory ==
    /\ call = "none"
    /\ call' = "detect_category"
    /\ category' = detect_category(disease_name, recommendation)
    /\ UNCHANGED <<ACTIVE_KEYWORDS, disease_name, recommendation, actives, chosen,
                   parseVars, appVars, linkVars>>

CallExtractActives ==
    /\ call = "none"
    /\ call' = "extract_actives"
    /\ actives' = extract_actives(recommendation)
    /\ UNCHANGED <<ACTIVE_KEYWORDS, disease_name, recommendation, category, chosen,
                   parseVars, appVars, linkVars>>

CallCuratedProducts ==
    /\ call = "none"
    /\ call' = "curated_products"
    /\ chosen' = curated_products(recommendation, disease_name)
    /\ UNCHANGED <<ACTIVE_KEYWORDS, disease_name, recommendation, category, actives,
                   parseVars, appVars, linkVars>>

NextText == CallDetectCategory \/ CallExtractActives \/ CallCuratedProducts

SpecText == InitText /\ [][NextText]_vars

(***************************************************************************)
(* SpecParse: one direct call of analyze_plant on a response text drawn at  *)
(* the start.                                                               *)
(***************************************************************************)
InitParse ==
    /\ ACTIVE_KEYWORDS = CatalogOrder
    /\ resp_text \in ResponseTexts \cup AppResponses
    /\ result = NoneValue
    /\ raised = FALSE
    /\ call = "none"
    /\ TextIdle
    /\ AppIdle
    /\ LinksIdle

CallAnalyzePlant ==
    /\ call = "none"
    /\ call' = "analyze_plant"
    /\ LET out == analyze_plant(resp_text)
       IN  result' = out.value /\ raised' = out.raised
    /\ UNCHANGED <<ACTIVE_KEYWORDS, disease_name, recommendation, category, actives,
                   chosen, resp_text, appVars, linkVars>>

NextParse == CallAnalyzePlant

SpecParse == InitParse /\ [][NextParse]_vars

(***************************************************************************)
(* Spec: the Streamlit session.  Each action is one thing the user does     *)
(* together with the script run it starts.                                  *)
(***************************************************************************)
\* the run started by widget trig with the widgets at name, f, p; text and
\* tts are what the two backends answer if the run calls them
Rerun(trig, name, f, p, text, tts) ==
    /\ trigger' = trig
    /\ IF Analyzes(GEMINI_API_KEY, trig, name, f, p)
       THEN LET analysis == analyze_plant(text)
            IN  /\ resp_text' = text
                /\ result' = analysis.value
                /\ raised' = analysis.raised
       ELSE resp_text' = "" /\ result' = NoneValue /\ raised' = FALSE
    /\ calls' = Script(GEMINI_API_KEY, trig, name, f, p, result', raised', tts).calls
    /\ tts_ok' = IF calls'.speech THEN tts ELSE TRUE
    /\ IF calls'.reset
       \* lines 371-372: the session cleared and the script run again
       THEN /\ plant_name' = "" /\ file' = NoFile /\ pic' = NoFile
            /\ page' = Script(GEMINI_API_KEY, "rerun", "", NoFile, NoFile,
                              NoneValue, FALSE, TRUE).page
       ELSE /\ plant_name' = name /\ file' = f /\ pic' = p
            /\ page' = Script(GEMINI_API_KEY, trig, name, f, p, result', raised', tts).page
    /\ UNCHANGED <<ACTIVE_KEYWORDS, GEMINI_API_KEY, call, disease_name,
                   recommendation, category, actives, chosen, linkVars>>

\* the session when the page has loaded: the script has run once
Init ==
    /\ ACTIVE_KEYWORDS \in SetOrders
    /\ GEMINI_API_KEY \in {"", "key"}
    /\ plant_name = ""
    /\ file = NoFile
    /\ pic = NoFile
    /\ trigger = "load"
    /\ tts_ok = TRUE
    /\ resp_text = ""
    /\ result = NoneValue
    /\ raised = FALSE
    /\ page = Script(GEMINI_API_KEY, "load", "", NoFile, NoFile, NoneValue, FALSE, TRUE).page
    /\ calls = NoCalls
    /\ call = "none"
    /\ TextIdle
    /\ LinksIdle

\* line 313: the user edits the plant name
TypePlantName ==
    /\ page.inputs
    /\ \E name \in PlantNames \ {plant_name} :
          Rerun("plant_name", name, file, pic, "", TRUE)

\* line 321: the user uploads, replaces or removes a file
UploadFile ==
    /\ page.inputs
    /\ \E f \in (Files \cup {NoFile}) \ {file} :
          Rerun("file", plant_name, f, pic, "", TRUE)

\* line 329: the user takes or clears a photo
TakePhoto ==
    /\ page.inputs
    /\ \E p \in (Photos \cup {NoFile}) \ {pic} :
          Rerun("pic", plant_name, file, p, "", TRUE)

\* line 335: the user clicks "Analyze", which a disabled button does not allow
ClickAnalyze ==
    /\ page.inputs
    /\ ~page.run_btn_disabled
    /\ \E text \in AppResponses, tts \in BOOLEAN :
          Rerun("run_btn", plant_name, file, pic, text, tts)

\* line 370: the user clicks "Analyze another plant" where it is shown
ClickReset ==
    /\ page.reset_btn
    /\ Rerun("reset_btn", plant_name, file, pic, "", TRUE)

Next == TypePlantName \/ UploadFile \/ TakePhoto \/ ClickAnalyze \/ ClickReset

Spec == Init /\ [][Next]_vars

(***************************************************************************)
(* SpecLinks: one direct call of osu_extension_links on a plant name and a  *)
(* finding name drawn at the start.                                         *)
(***************************************************************************)
InitLinks ==
    /\ ACTIVE_KEYWORDS = CatalogOrder
    /\ plant_name \in LinkPlants
    /\ disease_name \in LinkFindings
    /\ recommendation = ""
    /\ call = "none"
    /\ category = ""
    /\ actives = <<>>
    /\ chosen = <<>>
    /\ ParseIdle
    /\ GEMINI_API_KEY = "key"
    /\ file = NoFile
    /\ pic = NoFile
    /\ trigger = "none"
    /\ tts_ok = TRUE
    /\ page = BlankPage
    /\ calls = NoCalls
    /\ LinksIdle

CallOsuExtensionLinks ==
    /\ call = "none"
    /\ call' = "osu_extension_links"
    /\ links' = osu_extension_links(plant_name, disease_name)
    /\ UNCHANGED <<ACTIVE_KEYWORDS, disease_name, recommendation, category, actives,
                   chosen, parseVars, appVars>>

NextLinks == CallOsuExtensionLinks

SpecLinks == InitLinks /\ [][NextLinks]_vars

(***************************************************************************)
(* Properties of the text functions, stated without the code's loops.       *)
(***************************************************************************)
Min(a, b) == IF a < b THEN a ELSE b

\* the first category, in the order bacterial, fungal, insect, with one of
\* its keywords in the lower-cased text t; insect when there is none
FirstCategory(t) ==
    LET tl == lower(t)
        words == [bacterial |-> BacterialWords, fungal |-> FungalWords,
                  insect |-> InsectWords]
        hits == {k \in 1..Len(Categories) : AnyIn(words[Categories[k]], tl)}
    IN  IF hits = {} THEN "insect"
        ELSE Categories[CHOOSE k \in hits : \A m \in hits : k <= m]

\* the category curated_products resolves for the drawn arguments
Resolved == detect_category(disease_name, recommendation)

\* the actives of the resolved category's list that the recommendation mentions
MentionedInCategory ==
    LET tl == lower(recommendation)
        lst == CATALOG[Resolved]
    IN  {a \in {lst[k].active : k \in 1..Len(lst)} : Contains(a, tl)}

\* C1 as stated: curated_products returns at least 2 entries whenever the
\* resolved category's catalog list is non-empty.
C1_AtLeastTwo ==
    (call = "curated_products" /\ Len(CATALOG[Resolved]) > 0)
        => Len(chosen) >= 2

\* C1 amended: curated_products returns at least min(2, n) entries, n the
\* length of the resolved category's catalog list; for the shipped catalog
\* that is at least 2 for fungal and insect and exactly 1 for bacterial.
C1_AtLeastTwoOrWholeList ==
    call = "curated_products"
        => LET cat == Resolved
           IN  /\ Len(chosen) >= Min(2, Len(CATALOG[cat]))
               /\ cat \in {"fungal", "insect"} => Len(chosen) >= 2
               /\ cat = "bacterial" => Len(chosen) = 1

\* C1 witness: one active of a longer list is mentioned and the result was
\* backfilled to 2 entries.
C1_Witness ==
    /\ call = "curated_products"
    /\ Len(chosen) = 2
    /\ Len(CATALOG[Resolved]) > 2
    /\ Cardinality(MentionedInCategory) = 1

\* C2: curated_products returns at most 4 entries, each an entry of the
\* catalog; when the recommendation mentions more than 4 actives of the
\* resolved category the result has exactly 4 entries, all of them mentioned.
C2_AtMostFour ==
    call = "curated_products"
        => LET lst == CATALOG[Resolved]
               M == MentionedInCategory
           IN  /\ Len(chosen) <= 4
               /\ \A k \in 1..Len(chosen) : InList(chosen[k], lst)
               /\ Cardinality(M) > 4
                    => /\ Len(chosen) = 4
                       /\ \A k \in 1..4 : chosen[k].active \in M

\* C2 witness: more than 4 actives of the resolved category are mentioned
\* and 4 entries came back.
C2_Witness ==
    /\ call = "curated_products"
    /\ Len(chosen) = 4
    /\ Cardinality(MentionedInCategory) > 4

\* C4 as stated: detect_category returns the first category with a keyword
\* in the lower-cased concatenation of the two texts.
C4_Concatenation ==
    call = "detect_category"
        => category = FirstCategory(disease_name \o recommendation)

\* C4 amended: detect_category returns the first category, in the order
\* bacterial, fungal, insect, with a keyword in the lower-cased texts joined
\* by one space (disease text, space, treatment text), and insect when no
\* category has one.
C4_SpaceJoined ==
    call = "detect_category"
        => category = FirstCategory(disease_name \o " " \o recommendation)

\* C4 witness: a bacterial and a fungal keyword are both present and the
\* answer is bacterial.
C4_Witness ==
    /\ call = "detect_category"
    /\ category = "bacterial"
    /\ LET tl == lower(disease_name \o " " \o recommendation)
       IN  AnyIn(BacterialWords, tl) /\ AnyIn(FungalWords, tl)

\* C5 as stated: extract_actives returns the mentioned actives, each once,
\* in catalog iteration order (bacterial entries, then fungal, then insect).
C5_CatalogOrder ==
    call = "extract_actives"
        => LET tl == lower(recommendation)
           IN  actives = SelectSeq(CatalogOrder, LAMBDA a : Contains(a, tl))

\* C6: when the recommendation mentions an active of the resolved category,
\* the first returned entry's active is a mentioned one, and no entry whose
\* active is not mentioned comes before one whose active is.
C6_MatchedFirst ==
    call = "curated_products"
        => LET M == MentionedInCategory
           IN  M # {}
                => /\ Len(chosen) >= 1
                   /\ chosen[1].active \in M
                   /\ \A i, j \in 1..Len(chosen) :
                        (i < j /\ chosen[j].active \in M) => chosen[i].active \in M

\* C6 witness: the one mentioned active is not the list's first entry, it
\* comes back first, and a backfilled entry follows it.
C6_Witness ==
    /\ call = "curated_products"
    /\ Len(chosen) = 2
    /\ chosen[1] # CATALOG[Resolved][1]
    /\ LET M == MentionedInCategory
       IN  chosen[1].active \in M /\ chosen[2].active \notin M

(***************************************************************************)
(* Properties of the extraction in analyze_plant (SpecParse) and of the     *)
(* session (Spec).                                                          *)
(***************************************************************************)
\* the positions of character c in text t
Positions(t, c) == {i \in 1..Len(t) : SubSeq(t, i, i) = c}

\* t holds both a "{" and a "}"
HasBraces(t) == Positions(t, "{") # {} /\ Positions(t, "}") # {}

\* the characters of t from its first "{" to its last "}" inclusive; empty
\* when the last "}" comes before the first "{"
BraceSpan(t) ==
    LET first == CHOOSE i \in Positions(t, "{") : \A j \in Positions(t, "{") : i <= j
        last == CHOOSE i \in Positions(t, "}") : \A j \in Positions(t, "}") : i >= j
    IN  IF last < first THEN "" ELSE SubSeq(t, first, last)

\* the backend's text yields a parse error: no brace span, or a span that
\* is not JSON
IsParseError(t) == ~HasBraces(t) \/ ~json_loads(BraceSpan(t)).ok

\* C7: analyze_plant never raises; for a text without "{" or without "}" it
\* returns the no-JSON error value with the whole text as raw; otherwise it
\* returns what the span from the first "{" to the last "}" parses to, or
\* the invalid-JSON error value with that span as raw.
C7_Extraction ==
    call = "analyze_plant"
        => /\ ~raised
           /\ IF ~HasBraces(resp_text)
              THEN /\ DOMAIN result.v = {"error", "raw"}
                   /\ result.v["error"] = Str("Failed to parse the model response")
                   /\ result.v["raw"] = Str(resp_text)
              ELSE LET span == BraceSpan(resp_text)
                       parsed == json_loads(span)
                   IN  IF parsed.ok THEN result = parsed.val
                       ELSE /\ DOMAIN result.v = {"error", "raw"}
                            /\ result.v["error"] = Str("Invalid JSON")
                            /\ result.v["raw"] = Str(span)

\* C7 witness: the last "}" comes before the first "{" and the result is
\* the invalid-JSON error value with an empty raw.
C7_Witness ==
    /\ call = "analyze_plant"
    /\ HasBraces(resp_text)
    /\ BraceSpan(resp_text) = ""
    /\ result = InvalidJsonError("")

\* C3 as stated: after a click on "Analyze another plant" the reset handler
\* has run, the plant name and the image are cleared and the page is the
\* initial empty page.
C3_ResetClears ==
    trigger = "reset_btn"
        => /\ calls.reset
           /\ plant_name = ""
           /\ file = NoFile
           /\ pic = NoFile
           /\ ~page.success

\* C8: when the backend's text yields a parse error, the run shows an error
\* message and nothing of the results panel, and calls neither the speech
\* backend nor curated_products.
C8_ParseErrorStops ==
    (calls.backend /\ IsParseError(resp_text))
        => /\ page.error # ""
           /\ ~page.success
           /\ page.summary = <<>>
           /\ page.audio = ""
           /\ ~page.reset_btn
           /\ page.issues = <<>>
           /\ ~page.info
           /\ page.items = <<>>
           /\ ~page.no_products
           /\ ~calls.speech
           /\ ~calls.products

\* C8 witness: the backend answered with broken JSON and the error is shown.
C8_Witness ==
    /\ calls.backend
    /\ HasBraces(resp_text)
    /\ IsParseError(resp_text)
    /\ page.error = "Invalid JSON"

\* the findings of the last analysis
Findings == IF Truthy(Get(result, "results", NoneValue)) THEN result.v["results"].v ELSE <<>>

\* C9: when the speech backend fails the run is not ended by an exception,
\* no audio player is shown, and the summary, the issues and the products
\* are rendered exactly as with audio.
C9_SpeechFailureContinues ==
    (calls.speech /\ ~tts_ok)
        => /\ ~page.exception
           /\ page.audio = ""
           /\ page.success
           /\ page.summary # <<>>
           /\ Len(page.issues) = Len(Findings)
           /\ calls.products = (Findings # <<>>)
           /\ LET with_audio == Script(GEMINI_API_KEY, trigger, plant_name, file, pic,
                                       result, raised, TRUE)
              IN  /\ with_audio.page.audio # ""
                  /\ page = [with_audio.page EXCEPT !.audio = ""]
                  /\ calls = with_audio.calls

\* C9 witness: the speech backend failed in a run that rendered findings
\* and product cards.
C9_Witness ==
    /\ calls.speech
    /\ ~tts_ok
    /\ page.issues # <<>>
    /\ page.items # <<>>

\* non-empty image bytes are present: the photo's when there is a photo,
\* else the uploaded file's
HasImage ==
    \/ pic # NoFile /\ Len(pic) > 0
    \/ pic = NoFile /\ file # NoFile /\ Len(file) > 0

\* C10: "Analyze" is enabled only with a non-empty plant name and non-empty
\* image bytes, and the inference backend is called only in a run started
\* by "Analyze" with both present.
C10_AnalyzeNeedsBoth ==
    /\ (page.inputs /\ ~page.run_btn_disabled) => (Len(plant_name) > 0 /\ HasImage)
    /\ calls.backend => (trigger = "run_btn" /\ Len(plant_name) > 0 /\ HasImage)

\* C10 witness: the backend was called in a run started by "Analyze" on an
\* uploaded file, with the button enabled.
C10_Witness ==
    /\ calls.backend
    /\ trigger = "run_btn"
    /\ pic = NoFile
    /\ ~page.run_btn_disabled

(***************************************************************************)
(* Properties of the extension links (SpecLinks).                           *)
(***************************************************************************)
\* how often character c occurs in text t
Count(t, c) == Cardinality({i \in 1..Len(t) : SubSeq(t, i, i) = c})

\* characters that cannot stand raw in the query of a URL
UrlUnsafe == {" ", "\t", "&", "#", "+"}

\* the text of each link that does not come from the two names, and the one
\* "+" that separates the names when both are given
LinkFixedText ==
    << "https://www.google.com/search?q=site:ohioline.osu.edu+",
       "https://www.google.com/search?q=site:u.osu.edu+" \o "+plant+problem" >>

\* C11 as stated: in the links of osu_extension_links the two names appear
\* only URL-encoded: no space, "&", "#" or "+" of a name appears raw, so each
\* link holds such a character only as often as its fixed text does (plus
\* the one "+" between the two names).
C11_NamesUrlEncoded ==
    call = "osu_extension_links"
        => \A k \in 1..Len(links) :
             \A c \in UrlUnsafe :
                (Count(plant_name, c) + Count(disease_name, c) > 0)
                    => Count(links[k].link, c)
                         <= Count(LinkFixedText[k], c) + (IF c = "+" THEN 1 ELSE 0)

====
